---- MODULE Spec2Model ----
(***************************************************************************)
(* A model of render/context.go of the liquid template engine: the        *)
(* tag-facing Render Context (renderContext) over a Node Context          *)
(* (bindings map + settings).                                             *)
(*                                                                         *)
(* Go maps are reference values: a renderContext holds its nodeContext by  *)
(* value, but the bindings map inside it is shared with whoever else holds *)
(* that map.  The model therefore keeps a heap of bindings maps (scopes)   *)
(* and a Render Context refers to its map by index.                        *)
(*                                                                         *)
(* Strings are sequences of one-character tokens so that substring tests   *)
(* and formatting are computed, not assumed.                               *)
(***************************************************************************)
EXTENDS Integers, Sequences, FiniteSets, TLC

\* ------------------------------------------------------------------ bounds
MaxScopes == 3
MaxWrites == 2
MaxBody == 3
MaxPad == 1

\* ------------------------------------------------------------ value domain
\* Go's nil interface{}: what a map lookup of a missing key yields.
Nil == "nil"

Names == {"x", "y"}

Values == {"1", "2"}

\* A bindings map (map[string]interface{}): a function on the set of its keys.
AllMaps == UNION {[D -> Values] : D \in SUBSET Names}

EmptyMap == [k \in {} |-> Nil]

\* ------------------------------------------------------------------- state
VARIABLES
    scopes,   \* heap of bindings maps; index = identity of one nodeContext.bindings
    parent,   \* history: parent[i] = the scope i was cloned from (0: a root)
    snap,     \* history: the parent's bindings at the moment of the Clone
    lastw,    \* history: per scope, name -> value of the most recent write to it
    wpar,     \* history: per scope, the names written in its parent since the Clone
    nwrites,  \* number of Set / UpdateBindings calls made so far (bounded)
    rc,       \* the Render Context under test: [ctx, node, cn]
    sink,     \* the caller-supplied io.Writer's accumulated bytes
    ret       \* what the last operation returned (or the fault it raised)

vars == <<scopes, parent, snap, lastw, wpar, nwrites, rc, sink, ret>>

scopeVars == <<scopes, parent, snap, lastw, wpar, nwrites>>

callVars == <<rc, sink, ret>>

\* ------------------------------------------------------------ map helpers
\* m[k] = v on a Go map.
MapPut(b, n, v) == [k \in (DOMAIN b) \cup {n} |-> IF k = n THEN v ELSE b[k]]

\* for k, v := range m { b[k] = v }: the iteration order does not matter,
\* every key of m is written once.
MapMerge(b, m) == [k \in (DOMAIN b) \cup (DOMAIN m) |-> IF k \in DOMAIN m THEN m[k] ELSE b[k]]

\* Mutant of MapGet: a lookup that reports a missing key as a fault.
MapGetStrict(b, n) == IF n \in DOMAIN b THEN b[n] ELSE "panic: missing key"

\* b[n] on a Go map: the zero value (nil) for a missing key, never a fault.
MapGet(b, n) == IF n \in DOMAIN b THEN b[n] ELSE Nil

\* ----------------------------------------------------- Get / Set / Clone
\* renderContext.Get: c.ctx.bindings[name].
Get(h, s, name) == MapGet(h[s], name)

\* Mutant of SetH: the write lands in every map of the heap (aliased maps).
SetAliased(h, s, name, value) == [i \in DOMAIN h |-> MapPut(h[i], name, value)]

\* renderContext.Set: c.ctx.bindings[name] = value, on the shared map.
SetH(h, s, name, value) == [h EXCEPT ![s] = MapPut(h[s], name, value)]

\* Mutant of UpdateBindingsH: the merge lands in every map of the heap.
UpdateBindingsAliased(h, s, m) == [i \in DOMAIN h |-> MapMerge(h[i], m)]

\* Mutant of UpdateBindingsH: the merge is made into a copy and dropped.
UpdateBindingsCopy(h, s, m) == h

\* renderContext.UpdateBindings: every pair of m is written to the shared map.
UpdateBindingsH(h, s, m) == [h EXCEPT ![s] = MapMerge(h[s], m)]

\* nodeContext.Clone: a new bindings map seeded with a copy of every pair of
\* the original's; the two maps are distinct objects afterwards.
CloneH(h, s) == Append(h, h[s])

\* History bookkeeping of one write of the pairs of m to scope s.
NoteWrite(s, m) ==
    /\ lastw' = [lastw EXCEPT ![s] = MapMerge(lastw[s], m)]
    /\ wpar' = [i \in DOMAIN wpar |->
                  IF parent[i] = s THEN wpar[i] \cup DOMAIN m ELSE wpar[i]]
    /\ nwrites' = nwrites + 1

\* A tag calls Clone() on the Render Context of scope s.
Clone(s) ==
    /\ Len(scopes) < MaxScopes
    /\ scopes' = CloneH(scopes, s)
    /\ parent' = Append(parent, s)
    /\ snap' = Append(snap, scopes[s])
    /\ lastw' = Append(lastw, EmptyMap)
    /\ wpar' = Append(wpar, {})
    /\ UNCHANGED <<nwrites, callVars>>

\* A tag calls Set(name, value) on the Render Context of scope s.
Set(s, name, value) ==
    /\ nwrites < MaxWrites
    /\ scopes' = SetH(scopes, s, name, value)
    /\ NoteWrite(s, MapPut(EmptyMap, name, value))
    /\ UNCHANGED <<parent, snap, callVars>>

\* A tag calls UpdateBindings(m) on the Render Context of scope s.
UpdateBindings(s, m) ==
    /\ nwrites < MaxWrites
    /\ scopes' = UpdateBindingsH(scopes, s, m)
    /\ NoteWrite(s, m)
    /\ UNCHANGED <<parent, snap, callVars>>

NoCall == [op |-> "none"]

\* A nil *ASTFunctional / *ASTBlock.  Nodes share one record shape:
\* type, Chunk.Name (an expression for an object node), Chunk.Args (the text
\* of a text node) and Body.
NilNode == [type |-> "nil", name |-> "", args |-> <<>>, body |-> <<>>]

NoContext == [ctx |-> 1, node |-> NilNode, cn |-> NilNode]

\* The state after construction: one root scope, nothing called yet.
InitFrom(roots, contexts) ==
    /\ scopes \in {<<b>> : b \in roots}
    /\ parent = <<0>>
    /\ snap = scopes
    /\ lastw = <<EmptyMap>>
    /\ wpar = <<{}>>
    /\ nwrites = 0
    /\ rc \in contexts
    /\ sink = <<>>
    /\ ret = NoCall

\* Bindings a render starts from: none, one name, both names.
RootMaps ==
    { EmptyMap, MapPut(EmptyMap, "x", "1"), MapPut(MapPut(EmptyMap, "x", "1"), "y", "2") }

InitScope == InitFrom(RootMaps, {NoContext})

NextScope ==
    \/ \E s \in DOMAIN scopes : Clone(s)
    \/ \E s \in DOMAIN scopes, n \in Names, v \in Values \cup {Nil} : Set(s, n, v)
    \/ \E s \in DOMAIN scopes, m \in AllMaps : UpdateBindings(s, m)

Spec == InitScope /\ [][NextScope]_vars

\* ------------------------------------------------------ claims on scopes
Clones == {c \in DOMAIN scopes : parent[c] # 0}

\* C1: writes to a clone C (or to another clone of S) never change what Get
\* returns on S for a name S itself has not written since the Clone, and a
\* write to S after the Clone, or to a sibling clone, is not observed by C.
C1_WriteIsolation ==
    \A c \in Clones : \A n \in Names :
        /\ n \notin wpar[c] => Get(scopes, parent[c], n) = MapGet(snap[c], n)
        /\ n \notin DOMAIN lastw[c] => Get(scopes, c, n) = MapGet(snap[c], n)

\* Two clones of one scope; one was written, the parent was written, and the
\* other clone was never written.
C1_Witness ==
    \E c \in Clones, d \in Clones :
        /\ c # d /\ parent[c] = parent[d]
        /\ DOMAIN lastw[c] # {}
        /\ wpar[d] # {}
        /\ DOMAIN lastw[d] = {}
        /\ \E n \in Names : Get(scopes, c, n) # Get(scopes, parent[c], n)

\* The value a clone c holds for a name it has not written: the bindings its
\* parent had at the Clone, which for a name the parent (itself a clone) never
\* wrote are in turn those of the grandparent at the parent's Clone.
RECURSIVE AtClone(_, _)
AtClone(c, n) ==
    LET p == parent[c] IN
    IF parent[p] # 0 /\ n \notin DOMAIN lastw[p]
    THEN AtClone(p, n)
    ELSE MapGet(snap[c], n)

\* C2 (as stated): for a name not written in C since the Clone, Get on C
\* returns the value bound to that name in S.
C2_ReadsCurrentParent ==
    \A c \in Clones : \A n \in Names :
        n \notin DOMAIN lastw[c] => Get(scopes, c, n) = Get(scopes, parent[c], n)

\* C2 (amended): for a name not written in C since the Clone, Get on C
\* returns the value that name had in S at the time of the Clone, through any
\* depth of nested clones.
C2_ReadThroughAtClone ==
    \A c \in Clones : \A n \in Names :
        n \notin DOMAIN lastw[c] => Get(scopes, c, n) = AtClone(c, n)

\* A clone of a clone reads a bound name neither of them wrote, although the
\* root has since rebound that name.
C2_Witness ==
    \E c \in Clones : \E n \in Names :
        /\ parent[c] \in Clones
        /\ n \notin DOMAIN lastw[c] /\ n \notin DOMAIN lastw[parent[c]]
        /\ Get(scopes, c, n) # Nil
        /\ Get(scopes, c, n) # Get(scopes, parent[parent[c]], n)

\* C3: Get returns the value of the most recent write of a name to the scope,
\* and nil (no fault) for a name the scope never had bound.
C3_SetThenGet ==
    \A s \in DOMAIN scopes : \A n \in Names :
        /\ n \in DOMAIN lastw[s] => Get(scopes, s, n) = lastw[s][n]
        /\ (n \notin DOMAIN lastw[s] /\ n \notin DOMAIN snap[s]) => Get(scopes, s, n) = Nil

\* A scope where one name was written twice, the second value replacing the
\* first, while another name was never bound.
C3_Witness ==
    \E s \in DOMAIN scopes : \E n \in Names, k \in Names :
        /\ nwrites >= 2 /\ DOMAIN lastw[s] = {n}
        /\ n \in DOMAIN snap[s] /\ lastw[s][n] # snap[s][n]
        /\ k \notin DOMAIN snap[s] /\ k \notin DOMAIN scopes[s]

\* ------------------------------------------------------------- strings
\* strings.Contains(s, sub): sub occurs in s as a contiguous run.
Contains(s, sub) ==
    \E i \in 0..(Len(s) - Len(sub)) : SubSeq(s, i + 1, i + Len(sub)) = sub

\* --------------------------------------------------------------- errors
NoErr == [kind |-> "nil", text |-> <<>>]

IOError(filename) == [kind |-> "IOError", text |-> <<"open ", filename, ": no such file">>]

ParseError(src) == [kind |-> "ParseError", text |-> src]

EvaluationError == [kind |-> "EvaluationError", text |-> <<"undefined filter">>]

TagError == [kind |-> "TagError", text |-> <<"tag failed">>]

\* ------------------------------------------------- expression evaluation
\* Values a panic can carry (kind: the Go type of the value).  expression.InterpreterError is the evaluator's
\* own error type; the others stand for defects in a filter or tag: a Go
\* error, a string, and a value that is neither an error nor a Stringer.
InterpreterErrorT == "expression.InterpreterError"

Faults ==
    { [kind |-> InterpreterErrorT, text |-> <<"undefined filter">>],
      [kind |-> "error", text |-> <<"nil dereference">>],
      [kind |-> "string", text |-> <<"boom">>],
      [kind |-> "int", text |-> <<"42">>] }

SyntaxError == [kind |-> "SyntaxError", text |-> <<"syntax error">>]

Return(out, err) == [kind |-> "return", out |-> out, err |-> err]

Raise(val) == [kind |-> "raise", val |-> val]

\* The expression sources handed to EvaluateString.
Sources == { <<"x">>, <<"y">>, <<"x", "|", "f">>, <<"(">> }

TagNames == { <<"if">>, <<"assign">> }

\* expression.EvaluateString(source, expression.NewContext(bindings, cfg)):
\* a bare name evaluates to its binding; unparsable text is returned as an
\* error; anything else (filters, statements) either yields a value or
\* raises, with a recognized evaluation error or with any other fault.
Evaluator(source, b) ==
    IF Len(source) = 1 /\ source[1] \in Names
    THEN { Return(MapGet(b, source[1]), NoErr) }
    ELSE IF Contains(source, <<"(">>)
    THEN { Return(Nil, SyntaxError) }
    ELSE { Return(v, NoErr) : v \in Values } \cup { Raise(f) : f \in Faults }

\* The %s verb of package fmt applied to a recovered value: Error() of an
\* error, the string itself, and %!s(T=v) for a value with neither.
FmtS(e) ==
    IF e.kind = "int" THEN <<"%!s(int=">> \o e.text \o <<")">> ELSE e.text

\* fmt.Errorf("%s during evaluation of %s", e, source)
Errorf(e, source) ==
    [kind |-> "error", text |-> FmtS(e) \o <<" during evaluation of ">> \o source]

\* Mutant of EvaluateStringRes: no deferred recover, every fault passes.
EvaluateStringNoRecover(o, source) == o

\* Mutant of EvaluateStringRes: every recovered fault becomes the error result.
EvaluateStringSwallow(o, source) ==
    IF o.kind = "raise" THEN Return(Nil, o.val) ELSE o

\* renderContext.EvaluateString, given what the evaluator did (o): a normal
\* return is passed on; a raised InterpreterError becomes the err result (out
\* keeps its zero value); any other raised value is re-raised wrapped.
EvaluateStringRes(o, source) ==
    IF o.kind = "raise"
    THEN IF o.val.kind = InterpreterErrorT
         THEN Return(Nil, o.val)
         ELSE Raise(Errorf(o.val, source))
    ELSE o

\* fmt.Sprintf("%%%s %s", tag, source)
StatementSource(tag, source) == <<"%">> \o tag \o <<" ">> \o source

EvaluateString(source) ==
    /\ \E o \in Evaluator(source, scopes[rc.ctx]) :
          ret' = [op |-> "EvaluateString", source |-> source, ev |-> o,
                  res |-> EvaluateStringRes(o, source)]
    /\ UNCHANGED <<scopeVars, rc, sink>>

EvaluateStatement(tag, source) ==
    /\ \E o \in Evaluator(StatementSource(tag, source), scopes[rc.ctx]) :
          ret' = [op |-> "EvaluateStatement", source |-> StatementSource(tag, source),
                  ev |-> o,
                  res |-> EvaluateStringRes(o, StatementSource(tag, source))]
    /\ UNCHANGED <<scopeVars, rc, sink>>

InitEval == InitFrom(AllMaps, {NoContext})

NextEval ==
    \/ \E src \in Sources : EvaluateString(src)
    \/ \E tag \in TagNames, src \in Sources : EvaluateStatement(tag, src)

SpecEval == InitEval /\ [][NextEval]_vars

Evaluated == ret.op \in {"EvaluateString", "EvaluateStatement"}

\* C4: a recognized evaluation error (expression.InterpreterError) raised by
\* the evaluator never leaves EvaluateString or EvaluateStatement as a fault:
\* the call returns normally with that error as its error result.
C4_InterpreterErrorReturned ==
    (Evaluated /\ ret.ev.kind = "raise" /\ ret.ev.val.kind = InterpreterErrorT)
        => (ret.res.kind = "return" /\ ret.res.err = ret.ev.val)

\* EvaluateStatement has just recovered an InterpreterError.
C4_Witness ==
    /\ ret.op = "EvaluateStatement"
    /\ ret.ev.kind = "raise" /\ ret.ev.val.kind = InterpreterErrorT
    /\ ret.res.kind = "return"

TextNode(t) == [type |-> "text", name |-> "", args |-> t, body |-> <<>>]

ObjectNode(e) == [type |-> "object", name |-> e, args |-> <<>>, body |-> <<>>]

TagNode(n, a) == [type |-> "tag", name |-> n, args |-> a, body |-> <<>>]

BlockNode(n, a, b) == [type |-> "block", name |-> n, args |-> a, body |-> b]

\* The expression x | f names a filter that is not defined.
ExprTokens == Names \cup {"x|f"}

\* One lexeme each: the tags {% assign x = 2 %}, {% set y = 1 %}, {% fail %}.
AssignLex == "{%assign x=2%}"

SetLex == "{%set y=1%}"

FailLex == "{%fail%}"

AssignX == TagNode("assign", <<"x", "2">>)

SetY == TagNode("set", <<"y", "1">>)

Fail == TagNode("fail", <<>>)

TextA == TextNode(<<"A">>)

ObjX == ObjectNode("x")

\* --------------------------------------------------- TagArgs / TagName
\* renderContext.TagArgs: the functional node's arguments first, then the
\* block node's, else the empty string.
TagArgs(c) ==
    IF c.node.type # "nil" THEN c.node.args
    ELSE IF c.cn.type # "nil" THEN c.cn.args
    ELSE <<>>

\* renderContext.TagName
TagName(c) ==
    IF c.node.type # "nil" THEN c.node.name
    ELSE IF c.cn.type # "nil" THEN c.cn.name
    ELSE ""

\* renderContext.Clone: the same node references over a cloned nodeContext.
CloneRes(h, c) == [h |-> CloneH(h, c.ctx), c |-> [c EXCEPT !.ctx = Len(h) + 1]]

\* ------------------------------------------------------------ the parser
\* settings.Parse: text up to a lexeme is text; {{ e }} is an object node
\* when e is an expression and the braces close, a parse error otherwise.
RECURSIVE ParseNodes(_)
ParseNodes(src) ==
    IF src = <<>> THEN [err |-> NoErr, ast |-> <<>>]
    ELSE IF Len(src) >= 2 /\ src[1] = "{" /\ src[2] = "{"
    THEN IF Len(src) >= 5 /\ src[3] \in ExprTokens /\ src[4] = "}" /\ src[5] = "}"
         THEN LET rest == ParseNodes(SubSeq(src, 6, Len(src))) IN
              [err |-> rest.err, ast |-> <<ObjectNode(src[3])>> \o rest.ast]
         ELSE [err |-> ParseError(src), ast |-> <<>>]
    ELSE LET rest == ParseNodes(Tail(src))
             node == IF src[1] = AssignLex THEN AssignX
                     ELSE IF src[1] = SetLex THEN SetY
                     ELSE IF src[1] = FailLex THEN Fail
                     ELSE TextNode(<<src[1]>>) IN
         [err |-> rest.err, ast |-> <<node>> \o rest.ast]

Parse(src) ==
    LET r == ParseNodes(src) IN
    IF r.err # NoErr THEN [err |-> ParseError(src), ast |-> <<>>] ELSE r

\* ---------------------------------------------------------- the renderer
\* What an object node writes for a value: nothing for nil.
ValueText(v) == IF v = Nil THEN <<>> ELSE <<v>>

Entry(node, s, h, d) == [node |-> node, scope |-> s, sees |-> h[s], depth |-> d]

Rendered(h, w, err, trace) == [h |-> h, w |-> w, err |-> err, trace |-> trace]

RECURSIVE RenderASTSequence(_, _, _, _, _)
RECURSIVE RenderNode(_, _, _, _, _)
RECURSIVE TagRender(_, _, _, _)

\* Mutant of RenderChildrenRes: the error of the sequence is dropped.
RenderChildrenResNoError(h, c, w, d) ==
    IF c.cn.type = "nil" THEN Rendered(h, w, NoErr, <<>>)
    ELSE [RenderASTSequence(h, c.ctx, c.cn.body, w, d) EXCEPT !.err = NoErr]

\* renderContext.RenderChildren: nothing for a nil block, else the block's
\* body rendered against the context's own nodeContext.
RenderChildrenRes(h, c, w, d) ==
    IF c.cn.type = "nil" THEN Rendered(h, w, NoErr, <<>>)
    ELSE RenderASTSequence(h, c.ctx, c.cn.body, w, d)

\* renderContext.RenderChild: the body of the block handed in.
RenderChildRes(h, c, w, b, d) == RenderASTSequence(h, c.ctx, b.body, w, d)

\* The render behaviour the tag registry holds for each tag name, called with
\* a Render Context built around the node.
TagRender(h, c, w, d) ==
    CASE TagName(c) = "assign" ->
           Rendered(UpdateBindingsH(h, c.ctx, MapPut(EmptyMap, TagArgs(c)[1], TagArgs(c)[2])),
                    w, NoErr, <<>>)
      [] TagName(c) = "set" ->
           Rendered(SetH(h, c.ctx, TagArgs(c)[1], TagArgs(c)[2]), w, NoErr, <<>>)
      [] TagName(c) = "fail" -> Rendered(h, w, TagError, <<>>)
      [] TagName(c) = "scoped" ->
           LET k == CloneRes(h, c) IN RenderChildrenRes(k.h, k.c, w, d + 1)
      [] OTHER -> RenderChildrenRes(h, c, w, d + 1)

\* renderNode: one node into the writer.
RenderNode(h, s, node, w, d) ==
    CASE node.type = "text" -> Rendered(h, w \o node.args, NoErr, <<>>)
      [] node.type = "object" ->
           IF node.name \in Names
           THEN Rendered(h, w \o ValueText(Get(h, s, node.name)), NoErr, <<>>)
           ELSE Rendered(h, w, EvaluationError, <<>>)
      [] node.type = "tag" ->
           TagRender(h, [ctx |-> s, node |-> node, cn |-> NilNode], w, d)
      [] OTHER ->
           TagRender(h, [ctx |-> s, node |-> NilNode, cn |-> node], w, d)

\* nodeContext.RenderASTSequence: the nodes in order, stopping at the first
\* error.  trace lists every node rendered, in order, with the bindings it
\* saw on entry.
RenderASTSequence(h, s, nodes, w, d) ==
    IF nodes = <<>> THEN Rendered(h, w, NoErr, <<>>)
    ELSE LET r == RenderNode(h, s, Head(nodes), w, d)
             here == <<Entry(Head(nodes), s, h, d)>> \o r.trace IN
         IF r.err # NoErr THEN Rendered(r.h, r.w, r.err, here)
         ELSE LET rest == RenderASTSequence(r.h, s, Tail(nodes), r.w, d) IN
              Rendered(rest.h, rest.w, rest.err, here \o rest.trace)

\* ------------------------------------------------------- the file system
FileNames == {"missing.tpl", "page.tpl", "broken.tpl", "filter.tpl"}

\* ioutil.ReadFile: the bytes of the file, or an error for a missing file.
ReadFile(filename) ==
    CASE filename = "page.tpl" ->
           [err |-> NoErr, data |-> <<"A", AssignLex, "{", "{", "x", "}", "}", SetLex>>]
      [] filename = "broken.tpl" ->
           [err |-> NoErr, data |-> <<"A", "{", "{", "x">>]
      [] filename = "filter.tpl" ->
           [err |-> NoErr, data |-> <<"A", AssignLex, "{", "{", "x|f", "}", "}", SetLex>>]
      [] OTHER -> [err |-> IOError(filename), data |-> <<>>]

\* -------------------------------- RenderFile / InnerString / ParseTagArgs
\* What an operation hands back: the string and error it returns, the heap
\* it leaves, the nodes it rendered, and the collaborators it called.
Result(out, err, h, trace, calls) ==
    [out |-> out, err |-> err, h |-> h, trace |-> trace, calls |-> calls]

\* Mutant of RenderFileRes: the file is rendered against a clone of the scope.
RenderFileResCloned(h, c, filename) ==
    LET f == ReadFile(filename)
        p == Parse(f.data)
        k == CloneRes(h, c)
        r == RenderASTSequence(k.h, k.c.ctx, p.ast, <<>>, 0) IN
    IF f.err # NoErr THEN Result(<<>>, f.err, h, <<>>, <<"ReadFile">>)
    ELSE IF p.err # NoErr THEN Result(<<>>, p.err, h, <<>>, <<"ReadFile", "Parse">>)
    ELSE IF r.err # NoErr
         THEN Result(<<>>, r.err, r.h, r.trace, <<"ReadFile", "Parse", "renderNode">>)
         ELSE Result(r.w, NoErr, r.h, r.trace, <<"ReadFile", "Parse", "renderNode">>)

\* Mutant of RenderFileRes: a parse failure is not checked, and the file's
\* text is then rendered as it stands.
RenderFileResUnchecked(h, c, filename) ==
    LET f == ReadFile(filename)
        p == Parse(f.data)
        r == RenderASTSequence(h, c.ctx, <<TextNode(f.data)>>, <<>>, 0) IN
    IF f.err # NoErr THEN Result(<<>>, f.err, h, <<>>, <<"ReadFile">>)
    ELSE IF p.err # NoErr
         THEN Result(r.w, p.err, r.h, r.trace, <<"ReadFile", "Parse", "renderNode">>)
         ELSE RenderFileResCloned(h, c, filename)

\* renderContext.RenderFile: read, parse, render into a fresh buffer with the
\* context's own nodeContext; the first failing stage's error is returned
\* with the empty string.
RenderFileRes(h, c, filename) ==
    LET f == ReadFile(filename)
        p == Parse(f.data)
        r == RenderASTSequence(h, c.ctx, p.ast, <<>>, 0) IN
    IF f.err # NoErr THEN Result(<<>>, f.err, h, <<>>, <<"ReadFile">>)
    ELSE IF p.err # NoErr THEN Result(<<>>, p.err, h, <<>>, <<"ReadFile", "Parse">>)
    ELSE IF r.err # NoErr
         THEN Result(<<>>, r.err, r.h, r.trace, <<"ReadFile", "Parse", "renderNode">>)
         ELSE Result(r.w, NoErr, r.h, r.trace, <<"ReadFile", "Parse", "renderNode">>)

\* renderContext.InnerString: RenderChildren into a fresh buffer.
InnerStringRes(h, c) ==
    LET r == RenderChildrenRes(h, c, <<>>, 0) IN
    IF r.err # NoErr THEN Result(<<>>, r.err, r.h, r.trace, <<>>)
    ELSE Result(r.w, NoErr, r.h, r.trace, <<>>)

\* Mutant of HasInterpolation: a single brace counts as the delimiter.
HasSingleBrace(args) == Contains(args, <<"{">>)

\* strings.Contains(args, "{{")
HasInterpolation(args) == Contains(args, <<"{", "{">>)

\* renderContext.ParseTagArgs
ParseTagArgsRes(h, c) ==
    LET args == TagArgs(c) IN
    IF HasInterpolation(args)
    THEN LET p == Parse(args)
             r == RenderASTSequence(h, c.ctx, p.ast, <<>>, 0) IN
         IF p.err # NoErr THEN Result(<<>>, p.err, h, <<>>, <<"Parse">>)
         ELSE IF r.err # NoErr
              THEN Result(<<>>, r.err, r.h, r.trace, <<"Parse", "renderNode">>)
              ELSE Result(r.w, NoErr, r.h, r.trace, <<"Parse", "renderNode">>)
    ELSE Result(args, NoErr, h, <<>>, <<>>)

\* ------------------------------------------------------------ operations
\* Each behaviour applies one operation to one Render Context and one state
\* of its bindings (ret = NoCall: nothing has been called yet).
\* Maps made by a Clone during the call are unreachable once it returns.
Collect(h) == SubSeq(h, 1, Len(scopes))

\* The bytes already in a writer the caller hands in.
Prefixes == { <<>>, <<"P">> }

Called(op, arg, w0, r) ==
    [op |-> op, arg |-> arg, w0 |-> w0, before |-> scopes[rc.ctx],
     out |-> r.out, err |-> r.err, trace |-> r.trace, calls |-> r.calls]

RenderChildren ==
    /\ ret = NoCall
    /\ \E w0 \in Prefixes :
          LET r == RenderChildrenRes(scopes, rc, w0, 0) IN
          /\ scopes' = Collect(r.h)
          /\ sink' = r.w
          /\ ret' = Called("RenderChildren", rc.cn.body, w0,
                           Result(<<>>, r.err, r.h, r.trace, <<>>))
    /\ UNCHANGED <<parent, snap, lastw, wpar, nwrites, rc>>

\* Blocks a tag may hand to RenderChild (a branch that is not its own body).
ChildBlocks ==
    { BlockNode("else", <<>>, <<TextA, AssignX, Fail, SetY>>),
      BlockNode("else", <<>>, <<ObjX, SetY, BlockNode("scoped", <<>>, <<AssignX>>), ObjX>>) }

RenderChild(b) ==
    /\ ret = NoCall
    /\ \E w0 \in Prefixes :
          LET r == RenderChildRes(scopes, rc, w0, b, 0) IN
          /\ scopes' = Collect(r.h)
          /\ sink' = r.w
          /\ ret' = Called("RenderChild", b.body, w0,
                           Result(<<>>, r.err, r.h, r.trace, <<>>))
    /\ UNCHANGED <<parent, snap, lastw, wpar, nwrites, rc>>

InnerString ==
    /\ ret = NoCall
    /\ LET r == InnerStringRes(scopes, rc) IN
          /\ scopes' = Collect(r.h)
          /\ ret' = Called("InnerString", rc.cn.body, <<>>, r)
    /\ UNCHANGED <<parent, snap, lastw, wpar, nwrites, rc, sink>>

RenderFile(filename) ==
    /\ ret = NoCall
    /\ LET r == RenderFileRes(scopes, rc, filename) IN
          /\ scopes' = Collect(r.h)
          /\ ret' = Called("RenderFile", <<filename>>, <<>>, r)
    /\ UNCHANGED <<parent, snap, lastw, wpar, nwrites, rc, sink>>

ParseTagArgs ==
    /\ ret = NoCall
    /\ LET r == ParseTagArgsRes(scopes, rc) IN
          /\ scopes' = Collect(r.h)
          /\ ret' = Called("ParseTagArgs", TagArgs(rc), <<>>, r)
    /\ UNCHANGED <<parent, snap, lastw, wpar, nwrites, rc, sink>>

\* ------------------------------------------------------- render contexts
RECURSIVE SeqsUpTo(_, _)
SeqsUpTo(S, n) ==
    IF n = 0 THEN { <<>> }
    ELSE LET shorter == SeqsUpTo(S, n - 1) IN
         shorter \cup { Append(q, e) : q \in shorter, e \in S }

TopNodes ==
    { TextA, ObjX, AssignX, Fail,
      BlockNode("block", <<>>, <<SetY>>),
      BlockNode("scoped", <<>>, <<SetY>>) }

Bodies == SeqsUpTo(TopNodes, MaxBody)

PadChars == { "{", "}", "x", AssignLex }

Cores == { <<>>, <<"{", "{", "x", "}", "}">>, <<"{", "{", "x|f", "}", "}">> }

ArgTexts == { p \o c \o q : p \in SeqsUpTo(PadChars, MaxPad), c \in Cores,
                           q \in SeqsUpTo(PadChars, MaxPad) }

\* The Render Context is built around a functional node or a block node.
Contexts ==
    { [ctx |-> 1, node |-> TagNode("include", a), cn |-> NilNode] : a \in ArgTexts }
    \cup
    { [ctx |-> 1, node |-> NilNode, cn |-> BlockNode("for", <<"x">>, b)] : b \in Bodies }
    \cup
    { [ctx |-> 1, node |-> TagNode("include", <<"x">>),
       cn |-> BlockNode("for", <<"{", "{", "x", "}", "}">>, <<TextA>>)],
      NoContext }

InitRender == InitFrom(RootMaps, Contexts)

NextRender ==
    \/ RenderChildren
    \/ \E b \in ChildBlocks : RenderChild(b)
    \/ InnerString
    \/ \E f \in FileNames : RenderFile(f)
    \/ ParseTagArgs

SpecRender == InitRender /\ [][NextRender]_vars

\* ---------------------------------------------------- claims on rendering
\* The two-character delimiter occurs in the text.
HasDelimiter(t) == \E i \in 1..(Len(t) - 1) : t[i] = "{" /\ t[i + 1] = "{"

\* C6: ParseTagArgs returns the raw argument text, with no error and without
\* calling the parser or the renderer, exactly when the text holds no "{{";
\* otherwise the text is parsed and rendered against the current bindings
\* ("{{x}}" yields the value of x), and a parse or render failure yields the
\* empty string with the error.
C6_ParseTagArgs ==
    ret.op = "ParseTagArgs" =>
        /\ (~HasDelimiter(ret.arg)) <=> (ret.calls = <<>>)
        /\ (~HasDelimiter(ret.arg)) =>
              (ret.out = ret.arg /\ ret.err = NoErr /\ scopes[rc.ctx] = ret.before)
        /\ HasDelimiter(ret.arg) => ret.calls[1] = "Parse"
        /\ ret.err # NoErr => ret.out = <<>>
        /\ ret.err.kind = "ParseError" => ret.calls = <<"Parse">>
        /\ (ret.arg = <<"{", "{", "x", "}", "}">> /\ "x" \in DOMAIN ret.before) =>
              (ret.out = <<ret.before["x"]>> /\ ret.err = NoErr)

\* ParseTagArgs rendered "{{x}}" with x bound.
C6_Witness ==
    /\ ret.op = "ParseTagArgs"
    /\ ret.arg = <<"{", "{", "x", "}", "}">>
    /\ ret.out = <<"1">>

\* C7: the UpdateBindings call of a tag (here assign, m = [x |-> 2]) mutates
\* the scope its Render Context was built with: every node rendered later in
\* that scope sees x = 2, the names not in m keep their value, and the
\* binding is still there when the operation returns.
C7_UpdateBindingsInPlace ==
    ret.op \in {"RenderChildren", "RenderChild", "InnerString", "RenderFile", "ParseTagArgs"} =>
        \A k \in DOMAIN ret.trace :
            ret.trace[k].node.name = "assign" =>
                /\ \A j \in DOMAIN ret.trace :
                      (j > k /\ ret.trace[j].scope = ret.trace[k].scope) =>
                          MapGet(ret.trace[j].sees, "x") = "2"
                /\ (k + 1 \in DOMAIN ret.trace /\ ret.trace[k + 1].scope = ret.trace[k].scope) =>
                      MapGet(ret.trace[k + 1].sees, "y") = MapGet(ret.trace[k].sees, "y")
                /\ ret.trace[k].scope = rc.ctx => Get(scopes, rc.ctx, "x") = "2"

\* The sequence text, assign, object was rendered over x = 1.
C7_Witness ==
    /\ ret.op = "RenderChildren"
    /\ ret.arg = <<TextA, AssignX, ObjX>>
    /\ MapGet(ret.before, "x") = "1" /\ MapGet(ret.before, "y") = "2"
    /\ sink = <<"A", "2">>
    /\ Get(scopes, rc.ctx, "y") = "2"

\* The error a node raises by itself when rendered.
LeafError(n) ==
    IF n.type = "tag" /\ n.name = "fail" THEN TagError
    ELSE IF n.type = "object" /\ n.name \notin Names THEN EvaluationError
    ELSE NoErr

\* The error rendering a node ends with: its own, or that of the first
\* failing node of its body.
NodeError(n) ==
    IF n.type = "block"
    THEN IF \E j \in DOMAIN n.body : LeafError(n.body[j]) # NoErr
         THEN LeafError(n.body[CHOOSE j \in DOMAIN n.body :
                  /\ LeafError(n.body[j]) # NoErr
                  /\ \A i \in 1..(j - 1) : LeafError(n.body[i]) = NoErr])
         ELSE NoErr
    ELSE LeafError(n)

Failing(body) == {i \in DOMAIN body : NodeError(body[i]) # NoErr}

FirstFailing(body) == CHOOSE i \in Failing(body) : \A j \in Failing(body) : i <= j

\* C8: RenderFile returns the error of the stage that failed, with the empty
\* string: a file that cannot be read yields the read error (an IOError) and
\* the parser is not called; a parse failure yields the parse error and the
\* renderer is not called; a render failure yields the render error.
C8_RenderFileStages ==
    ret.op = "RenderFile" =>
        LET f == ReadFile(ret.arg[1])
            p == Parse(f.data) IN
        /\ ret.err # NoErr => ret.out = <<>>
        /\ f.err # NoErr =>
              (ret.err = f.err /\ ret.err.kind = "IOError" /\ ret.calls = <<"ReadFile">>
               /\ ret.trace = <<>>)
        /\ (f.err = NoErr /\ p.err # NoErr) =>
              (ret.err = p.err /\ ret.err.kind = "ParseError"
               /\ ret.calls = <<"ReadFile", "Parse">> /\ ret.trace = <<>>)
        /\ (f.err = NoErr /\ p.err = NoErr /\ Failing(p.ast) # {}) =>
              (ret.err = NodeError(p.ast[FirstFailing(p.ast)])
               /\ ret.calls = <<"ReadFile", "Parse", "renderNode">>)
        /\ (f.err = NoErr /\ p.err = NoErr /\ Failing(p.ast) = {}) => ret.err = NoErr

\* RenderFile was called on a file that does not exist.
C8_Witness ==
    /\ ret.op = "RenderFile"
    /\ ret.arg = <<"missing.tpl">>
    /\ ret.err.kind = "IOError"

\* The sequence an operation rendered.
RenderedBody ==
    IF ret.op = "RenderFile" THEN Parse(ReadFile(ret.arg[1]).data).ast ELSE ret.arg

CountA(w) == Cardinality({i \in DOMAIN w : w[i] = "A"})

\* C9: rendering a sequence stops at the first node that fails: no later node
\* is rendered (no output, no binding mutation), the caller receives that
\* node's error, and what earlier nodes wrote to the caller's writer stays.
C9_FailFast ==
    ret.op \in {"RenderChildren", "RenderChild", "InnerString", "RenderFile"} =>
        LET body == RenderedBody
            top == {k \in DOMAIN ret.trace : ret.trace[k].depth = 0} IN
        /\ (Failing(body) = {} \/ (ret.op \in {"RenderChildren", "InnerString"} /\ rc.cn.type = "nil"))
              => (ret.err.kind \in {"nil", "IOError", "ParseError"})
        /\ (Failing(body) # {} /\ ~(ret.op \in {"RenderChildren", "InnerString"} /\ rc.cn.type = "nil")) =>
              LET i == FirstFailing(body) IN
              /\ ret.err = NodeError(body[i])
              /\ Cardinality(top) = i
              /\ \A k \in top : ret.trace[k].node \in {body[j] : j \in 1..i}
              /\ ret.out = <<>>
              /\ ret.op \in {"RenderChildren", "RenderChild"} =>
                    /\ SubSeq(sink, 1, Len(ret.w0)) = ret.w0
                    /\ CountA(sink) = Cardinality({j \in 1..(i - 1) : body[j] = TextA})
              /\ (\A j \in 1..i : body[j] # AssignX) =>
                    Get(scopes, rc.ctx, "x") = MapGet(ret.before, "x")
              /\ (\A j \in 1..i : body[j] # SetY /\ body[j].name # "block") =>
                    Get(scopes, rc.ctx, "y") = MapGet(ret.before, "y")

\* RenderChildren failed at the second of three nodes, after the first wrote
\* behind what the writer already held; the third would have rebound x.
C9_Witness ==
    /\ ret.op = "RenderChildren"
    /\ ret.arg = <<TextA, Fail, AssignX>>
    /\ ret.w0 = <<"P">>
    /\ sink = <<"P", "A">>
    /\ ret.err = TagError
    /\ Get(scopes, rc.ctx, "x") = "1"

\* A tag of this name occurs in the sequence outside any scoped block.
HasUnscoped(body, tag) ==
    \E i \in DOMAIN body :
        \/ body[i].type = "tag" /\ body[i].name = tag
        \/ /\ body[i].type = "block" /\ body[i].name # "scoped"
           /\ \E j \in DOMAIN body[i].body :
                 body[i].body[j].type = "tag" /\ body[i].body[j].name = tag

\* The sequence the operation rendered, if it rendered one.
RenderInput ==
    CASE ret.op = "RenderFile" -> Parse(ReadFile(ret.arg[1]).data).ast
      [] ret.op = "ParseTagArgs" ->
           IF HasDelimiter(ret.arg) THEN Parse(ret.arg).ast ELSE <<>>
      [] ret.op = "RenderChildren" -> IF rc.cn.type = "nil" THEN <<>> ELSE ret.arg
      [] OTHER -> ret.arg

\* C10: RenderFile, ParseTagArgs, RenderChild and RenderChildren render
\* against the Render Context's own scope: the bindings written by the tags
\* they render (outside a scoped block, whose Clone isolates its writes) are
\* what Get returns on the calling context afterwards.
C10_NestedWritesVisible ==
    (ret.op \in {"RenderFile", "ParseTagArgs", "RenderChild", "RenderChildren"}
     /\ ret.err = NoErr) =>
        /\ Get(scopes, rc.ctx, "x") =
              IF HasUnscoped(RenderInput, "assign") THEN "2" ELSE MapGet(ret.before, "x")
        /\ Get(scopes, rc.ctx, "y") =
              IF HasUnscoped(RenderInput, "set") THEN "1" ELSE MapGet(ret.before, "y")

\* RenderFile rendered a file whose tags rebound x and bound y.
C10_Witness ==
    /\ ret.op = "RenderFile"
    /\ ret.arg = <<"page.tpl">>
    /\ ret.before = MapPut(EmptyMap, "x", "1")
    /\ ret.out = <<"A", "2">>
    /\ Get(scopes, rc.ctx, "x") = "2" /\ Get(scopes, rc.ctx, "y") = "1"

====
